---- MODULE Spec2Model ----
(***************************************************************************)
(* A model of browservice's download ledger (src/download_manager.cpp) and *)
(* of its HTTP request rendezvous and server lifecycle (src/http.cpp).     *)
(*                                                                         *)
(* Spec        : the DownloadManager, its CEF download handler and the UI  *)
(*               task queue its notifications are posted to.               *)
(* SpecClamp   : the same with one download and every reported percentage. *)
(* SpecHTTP    : HTTPRequestHandler::handleRequest on worker threads, the  *)
(*               HTTPRequest handle on the UI thread, HTTPServer::Impl.    *)
(* SpecReq     : the request rendezvous of SpecHTTP without the shutdown;  *)
(*               FairSpecReq adds the scheduling of the worker threads.    *)
(***************************************************************************)
EXTENDS Integers, Sequences, FiniteSets, TLC

\* ------------------------------------------------------------- bounds
\* Number of distinct engine download ids.
MaxIds == 2
\* Capacity of the UI thread's task queue in the model.
MaxTasks == 2
\* Number of inbound HTTP requests.
MaxReqs == 2

Ids == 1..MaxIds
Reqs == 1..MaxReqs

\* ------------------------------------------------- program constants
\* nullptr of a CefRefPtr.
NULL == 0
\* CefDownloadItem::GetPercentComplete's "unknown" value, as tested by the code.
IndeterminateSentinel == -1
IndeterminateProgress == 50
MinProgress == 0
MaxProgress == 100
FirstFileIdx == 1

\* The engine-reported percentages the model feeds to OnDownloadUpdated: all
\* of them for a single download (SpecClamp), one of them when several
\* downloads are in flight (Spec).
PercentInputs == {-50, IndeterminateSentinel, 0, 37, 100, 101, 9999}
TickInputs == {37}
\* Suggested names.
Names == {"a.txt"}

VARIABLES
    \* DownloadManager
    infos,          \* infos_: id -> DownloadInfo, for the ids in the map
    pending,        \* pending_: queue of ids
    nextFileIdx,    \* nextFileIdx_
    tempDir,        \* tempDir_ has been created
    dmAlive,        \* the DownloadManager has not been destructed
    handlerAlive,   \* the target of eventHandler_ (a weak_ptr) still exists
    tasks,          \* tasks posted to the UI thread, not yet run
    \* environment: what the program did to the engine and the file system
    begun,          \* ids the engine has used for a download
    registered,     \* start callbacks in the order OnBeforeDownload got them
    continued,      \* Continue(path, false) calls, in order
    cancelInvoked,  \* cancel callbacks whose Cancel() was called
    unlinked,       \* paths unlink() was called on
    held,           \* CompletedDownload objects the event handler holds
    completions,    \* ids for which onDownloadCompleted was posted, in order
    lastCount,      \* the count onPendingDownloadCountChanged last delivered
    \* HTTPRequestHandler::handleRequest, one worker thread per request
    wpc,            \* "idle", "posted", "blocked" (in responderFuture.get()), "done"
    refs,           \* who holds a shared_ptr to the request's HTTPRequest
    destroyed,      \* HTTPRequest::Impl::~Impl has run
    responseSent,   \* HTTPRequest::Impl::responseSent_
    channel,        \* the promise's shared state: NoValue or the responder
    writes,         \* set_value calls on responderPromise_
    fallback,       \* ~Impl sent the internal server error response
    wire,           \* the response the worker produced: NoValue or a response
    applied,        \* responders the worker applied
    httpTasks,      \* tasks posted to the UI thread by the HTTP server
    httpHandlerAlive, \* the HTTPServerEventHandler still exists
    \* HTTPServer::Impl
    listening,      \* httpServer_ accepts connections
    shutdownStarted,    \* shutdownStarted_
    shutdownComplete,   \* shutdownComplete_
    stopSpawned,    \* stop threads that have not yet called stopAll
    stopStopped,    \* stop threads between stopAll and postTask
    stopAllCalls,   \* calls of httpServer_.stopAll(false)
    shutdownDelivered, \* calls of onHTTPServerShutdownComplete
    serverAlive,    \* the HTTPServer object exists
    implDestroyed,  \* HTTPServer::Impl::~Impl has run
    \* both
    lastOp,         \* the operation the last step performed, with its inputs
    aborted         \* a REQUIRE or CHECK failed: the process is gone

dlVars == <<infos, pending, nextFileIdx, tempDir, dmAlive, handlerAlive, tasks,
            begun, registered, continued, cancelInvoked, unlinked, held,
            completions, lastCount>>

reqVars == <<wpc, refs, destroyed, responseSent, channel, writes, fallback,
             wire, applied, httpTasks, httpHandlerAlive>>

serverVars == <<listening, shutdownStarted, shutdownComplete, stopSpawned,
                stopStopped, stopAllCalls, shutdownDelivered, serverAlive,
                implDestroyed>>

httpVars == <<reqVars, serverVars>>

vars == <<dlVars, httpVars, lastOp, aborted>>

\* ------------------------------------------------------------ helpers
Min(a, b) == IF a < b THEN a ELSE b
Max(a, b) == IF a > b THEN a ELSE b

\* The callback objects the engine hands over for download id.
StartCb(id) == id
CancelCb(id) == id

Op(op, id, complete, inProgress, percent) ==
    [op |-> op, id |-> id, complete |-> complete, inProgress |-> inProgress,
     percent |-> percent]

\* An erase that removes nothing.
EraseNothing(m, id) == m

\* std::map::erase
Erase(m, id) == [i \in (DOMAIN m) \ {id} |-> m[i]]

\* DownloadManager::getFilePath_: tempDir_->path() + "/file_" + toString(fileIdx) + ".bin"
getFilePath_(fileIdx) == <<"file_", fileIdx, ".bin">>

\* The ids of a map in iteration order (ascending keys).
RECURSIVE KeySeq(_)
KeySeq(S) ==
    IF S = {} THEN <<>>
    ELSE LET m == CHOOSE x \in S : \A y \in S : x <= y
         IN <<m>> \o KeySeq(S \ {m})

\* operator< of pair<int, int>
PairLess(a, b) == a[1] < b[1] \/ (a[1] = b[1] /\ a[2] < b[2])

RECURSIVE InsertSorted(_, _)
InsertSorted(p, s) ==
    IF Len(s) = 0 THEN <<p>>
    ELSE IF PairLess(s[1], p) THEN <<s[1]>> \o InsertSorted(p, Tail(s))
    ELSE <<p>> \o s

\* The pairs left in the map's iteration order.
Unsorted(s) == s

\* sort(pairs.begin(), pairs.end())
RECURSIVE SortPairs(_)
SortPairs(s) ==
    IF Len(s) = 0 THEN <<>> ELSE InsertSorted(s[1], SortPairs(Tail(s)))

\* The loop of downloadProgressChanged_ that collects (fileIdx, progress).
RECURSIVE CollectPairs(_, _)
CollectPairs(inf, ks) ==
    IF Len(ks) = 0 THEN <<>>
    ELSE (IF inf[ks[1]].startCallback = NULL
          THEN <<(<<inf[ks[1]].fileIdx, inf[ks[1]].progress>>)>>
          ELSE <<>>) \o CollectPairs(inf, Tail(ks))

ProgressPayload(inf) ==
    LET pairs == SortPairs(CollectPairs(inf, KeySeq(DOMAIN inf)))
    IN [k \in 1..Len(pairs) |-> pairs[k][2]]

\* DownloadManager::downloadProgressChanged_
downloadProgressChanged_(inf) ==
    [kind |-> "onDownloadProgressChanged", arg |-> ProgressPayload(inf)]

\* A notification that carries the count before the download was queued.
pendingDownloadCountStale_(q) ==
    [kind |-> "onPendingDownloadCountChanged", arg |-> Max(0, Len(q) - 1)]

\* DownloadManager::pendingDownloadCountChanged_
pendingDownloadCountChanged_(q) ==
    [kind |-> "onPendingDownloadCountChanged", arg |-> Len(q)]

DownloadCompletedTask(file) ==
    [kind |-> "onDownloadCompleted", arg |-> file]

\* Clamping before the test for the sentinel.
StoredProgressClampFirst(percent) ==
    LET p == Max(MinProgress, Min(MaxProgress, percent))
    IN IF p = IndeterminateSentinel THEN IndeterminateProgress ELSE p

\* info.progress after the in-progress branch of OnDownloadUpdated.
StoredProgress(percent) ==
    LET p == IF percent = IndeterminateSentinel THEN IndeterminateProgress ELSE percent
    IN Max(MinProgress, Min(MaxProgress, p))

\* The newest id of the queue instead of the oldest.
Back(q) == q[Len(q)]

\* pending_.front() and pending_.pop()
Front(q) == Head(q)
\* An accept that reads the front of pending_ and leaves it queued.
PopKeeps(q) == q

Pop(q) == Tail(q)

\* ----------------------------------------------------- HTTP helpers
\* An empty slot, and a slot holding v.
NoValue == [set |-> FALSE]
Some(v) == [set |-> TRUE, v |-> v]

\* The status a Poco::Net::HTTPServerResponse carries until setStatus is
\* called on it; the responder built by sendResponse never calls it.
PocoDefaultStatus == 200
InternalServerError == 500

FallbackText == "ERROR: Request handling failure\n"
TextContentType == "text/plain; charset=UTF-8"

NoCacheHeaders ==
    {<<"Cache-Control", "no-cache, no-store, must-revalidate">>,
     <<"Pragma", "no-cache">>, <<"Expires", "0">>}

\* The response object Poco hands to handleRequest.
FreshResponse ==
    [status |-> PocoDefaultStatus, headers |-> {}, contentLength |-> -1,
     body |-> ""]

\* The lambda sendResponse stores in the promise, with its captures.
Responder(status, contentType, contentLength, body, noCache) ==
    [status |-> status, contentType |-> contentType,
     contentLength |-> contentLength, body |-> body, noCache |-> noCache]

\* The responder applied to a response: what the lambda's body does.
ApplyResponder(rsp, response) ==
    [response EXCEPT
        !.headers = response.headers
                    \cup {<<"Content-Type", rsp.contentType>>}
                    \cup (IF rsp.noCache THEN NoCacheHeaders ELSE {}),
        !.contentLength = rsp.contentLength,
        !.body = rsp.body]

\* The responder sendTextResponse builds.
TextResponder(status, text, noCache) ==
    Responder(status, TextContentType, Len(text), text, noCache)

\* ------------------------------------------------------------- Init
Init ==
    /\ infos = [i \in {} |-> NULL]
    /\ pending = <<>>
    /\ nextFileIdx = FirstFileIdx
    /\ tempDir = FALSE
    /\ dmAlive = TRUE
    /\ handlerAlive = TRUE
    /\ tasks = <<>>
    /\ begun = {}
    /\ registered = <<>>
    /\ continued = <<>>
    /\ cancelInvoked = {}
    /\ unlinked = {}
    /\ held = {}
    /\ completions = <<>>
    /\ lastCount = NoValue
    /\ wpc = [r \in Reqs |-> "idle"]
    /\ refs = [r \in Reqs |-> {}]
    /\ destroyed = [r \in Reqs |-> FALSE]
    /\ responseSent = [r \in Reqs |-> FALSE]
    /\ channel = [r \in Reqs |-> NoValue]
    /\ writes = [r \in Reqs |-> 0]
    /\ fallback = [r \in Reqs |-> FALSE]
    /\ wire = [r \in Reqs |-> NoValue]
    /\ applied = [r \in Reqs |-> 0]
    /\ httpTasks = <<>>
    /\ httpHandlerAlive = TRUE
    /\ listening = TRUE
    /\ shutdownStarted = FALSE
    /\ shutdownComplete = FALSE
    /\ stopSpawned = 0
    /\ stopStopped = 0
    /\ stopAllCalls = 0
    /\ shutdownDelivered = 0
    /\ serverAlive = TRUE
    /\ implDestroyed = FALSE
    /\ lastOp = Op("init", 0, FALSE, FALSE, 0)
    /\ aborted = FALSE

\* ---------------------------------------------------------- actions
\* postTask of the sequence ts of tasks.
Post(ts) ==
    /\ Len(tasks) + Len(ts) <= MaxTasks
    /\ tasks' = tasks \o ts

\* An index counter that is read and not incremented.
NextFileIdxStuck(n) == n

\* nextFileIdx_++ : the value the counter has after an index was taken.
NextFileIdx(n) == n + 1

\* DownloadHandler::OnBeforeDownload. The engine never uses an id for a second
\* download, so REQUIRE(!downloadManager_->infos_.count(id)) holds.
OnBeforeDownload(id, name) ==
    /\ UNCHANGED httpVars
    /\ dmAlive /\ ~aborted
    /\ id \notin begun
    /\ id \notin DOMAIN infos
    /\ begun' = begun \cup {id}
    /\ infos' = [i \in (DOMAIN infos) \cup {id} |->
                    IF i = id
                    THEN [fileIdx |-> nextFileIdx, name |-> name,
                          startCallback |-> StartCb(id),
                          cancelCallback |-> NULL, progress |-> 0]
                    ELSE infos[i]]
    /\ nextFileIdx' = NextFileIdx(nextFileIdx)
    /\ registered' = Append(registered, StartCb(id))
    /\ pending' = Append(pending, id)
    /\ Post(<<pendingDownloadCountChanged_(pending')>>)
    /\ lastOp' = Op("OnBeforeDownload", id, FALSE, FALSE, 0)
    /\ UNCHANGED <<tempDir, dmAlive, handlerAlive, continued, cancelInvoked,
                   unlinked, held, completions, lastCount, aborted>>

\* The completion branch with downloadProgressChanged_ called before the
\* onDownloadCompleted task is posted.
UpdateCompleteProgressFirst(id, info) ==
    LET file == [path |-> getFilePath_(info.fileIdx), name |-> info.name]
    IN /\ tempDir' = TRUE
       /\ infos' = Erase(infos, id)
       /\ completions' = Append(completions, id)
       /\ Post(<<downloadProgressChanged_(infos'), DownloadCompletedTask(file)>>)
       /\ UNCHANGED <<cancelInvoked, unlinked>>

\* The branch of OnDownloadUpdated taken for an id the handler processes.
UpdateComplete(id, info) ==
    LET file == [path |-> getFilePath_(info.fileIdx), name |-> info.name]
    IN /\ tempDir' = TRUE
       /\ infos' = Erase(infos, id)
       /\ completions' = Append(completions, id)
       /\ Post(<<DownloadCompletedTask(file), downloadProgressChanged_(infos')>>)
       /\ UNCHANGED <<cancelInvoked, unlinked>>

\* The cancellation branch without unlinkFile_.
UpdateCancelledKeepsFile(id, info) ==
    /\ cancelInvoked' = cancelInvoked \cup {info.cancelCallback}
    /\ infos' = Erase(infos, id)
    /\ Post(<<downloadProgressChanged_(infos')>>)
    /\ UNCHANGED <<tempDir, unlinked, completions>>

UpdateCancelled(id, info) ==
    /\ cancelInvoked' = cancelInvoked \cup {info.cancelCallback}
    /\ tempDir' = TRUE
    /\ unlinked' = unlinked \cup {getFilePath_(info.fileIdx)}
    /\ infos' = Erase(infos, id)
    /\ Post(<<downloadProgressChanged_(infos')>>)
    /\ UNCHANGED <<completions>>

\* The progress branch without the assignment of info.cancelCallback.
UpdateProgressDropsCancel(id, info, percent) ==
    /\ infos' = [infos EXCEPT ![id].progress = StoredProgress(percent)]
    /\ Post(<<downloadProgressChanged_(infos')>>)
    /\ UNCHANGED <<tempDir, cancelInvoked, unlinked, completions>>

UpdateProgress(id, info, percent) ==
    /\ infos' = [infos EXCEPT ![id] =
                    [info EXCEPT !.progress = StoredProgress(percent)]]
    /\ Post(<<downloadProgressChanged_(infos')>>)
    /\ UNCHANGED <<tempDir, cancelInvoked, unlinked, completions>>

\* The early return without the test of info.startCallback.
UpdateIgnoredOnlyUnknown(id) == id \notin DOMAIN infos

\* Whether OnDownloadUpdated returns early for id.
UpdateIgnored(id) ==
    \/ id \notin DOMAIN infos
    \/ infos[id].startCallback # NULL

\* DownloadHandler::OnDownloadUpdated. The engine may report an id before,
\* between and after the other events for it.
OnDownloadUpdated(id, complete, inProgress, percent) ==
    /\ UNCHANGED httpVars
    /\ dmAlive /\ ~aborted
    /\ lastOp' = Op("OnDownloadUpdated", id, complete, inProgress, percent)
    /\ IF UpdateIgnored(id)
       THEN UNCHANGED <<infos, tempDir, cancelInvoked, unlinked, completions,
                        tasks>>
       ELSE LET info == [infos[id] EXCEPT !.cancelCallback = CancelCb(id)]
            IN IF complete THEN UpdateComplete(id, info)
               ELSE IF ~inProgress THEN UpdateCancelled(id, info)
               ELSE UpdateProgress(id, info, percent)
    /\ UNCHANGED <<pending, nextFileIdx, dmAlive, handlerAlive, begun,
                   registered, continued, held, lastCount, aborted>>

\* The body of acceptPendingDownload's if(!pending_.empty()).
AcceptFront ==
    LET id == Front(pending)
    IN /\ pending' = Pop(pending)
       /\ IF id \notin DOMAIN infos
          THEN \* REQUIRE(infos_.count(id)) fails
               /\ aborted' = TRUE
               /\ Post(<<pendingDownloadCountChanged_(pending')>>)
               /\ UNCHANGED <<infos, tempDir, continued>>
          ELSE IF infos[id].startCallback = NULL
          THEN \* REQUIRE(info.startCallback) fails
               /\ aborted' = TRUE
               /\ tempDir' = TRUE
               /\ Post(<<pendingDownloadCountChanged_(pending')>>)
               /\ UNCHANGED <<infos, continued>>
          ELSE /\ tempDir' = TRUE
               /\ continued' = Append(continued,
                      [cb |-> infos[id].startCallback,
                       path |-> getFilePath_(infos[id].fileIdx)])
               /\ infos' = [infos EXCEPT ![id].startCallback = NULL]
               /\ Post(<<pendingDownloadCountChanged_(pending'),
                         downloadProgressChanged_(infos')>>)
               /\ UNCHANGED aborted

AcceptFrame ==
    /\ UNCHANGED httpVars
    /\ dmAlive /\ ~aborted
    /\ lastOp' = Op("acceptPendingDownload", 0, FALSE, FALSE, 0)
    /\ UNCHANGED <<nextFileIdx, dmAlive, handlerAlive, begun, registered,
                   cancelInvoked, unlinked, held, completions, lastCount>>

\* acceptPendingDownload with the notification posted before the emptiness test.
acceptPendingDownloadNotifyFirst ==
    /\ AcceptFrame
    /\ IF Len(pending) = 0
       THEN /\ Post(<<pendingDownloadCountChanged_(pending)>>)
            /\ UNCHANGED <<infos, pending, tempDir, continued, aborted>>
       ELSE AcceptFront

\* DownloadManager::acceptPendingDownload
acceptPendingDownload ==
    /\ AcceptFrame
    /\ IF Len(pending) = 0
       THEN UNCHANGED <<infos, pending, tempDir, continued, tasks, aborted>>
       ELSE AcceptFront

\* A destructor that unlinks the files and cancels nothing.
DtorCancelsNothing(inf) == {}

\* What ~DownloadManager cancels and unlinks.
DtorCancels(inf) ==
    {inf[i].cancelCallback : i \in {j \in DOMAIN inf :
        inf[j].startCallback = NULL /\ inf[j].cancelCallback # NULL}}
DtorUnlinks(inf) ==
    {getFilePath_(inf[i].fileIdx) : i \in {j \in DOMAIN inf :
        inf[j].startCallback = NULL}}

\* DownloadManager::~DownloadManager, then the destruction of its members.
DestroyManager ==
    /\ UNCHANGED httpVars
    /\ dmAlive /\ ~aborted
    /\ dmAlive' = FALSE
    /\ cancelInvoked' = cancelInvoked \cup DtorCancels(infos)
    /\ unlinked' = unlinked \cup DtorUnlinks(infos)
    /\ tempDir' = (tempDir \/ DtorUnlinks(infos) # {})
    /\ infos' = [i \in {} |-> NULL]
    /\ pending' = <<>>
    /\ lastOp' = Op("~DownloadManager", 0, FALSE, FALSE, 0)
    /\ UNCHANGED <<nextFileIdx, handlerAlive, tasks, begun, registered,
                   continued, held, completions, lastCount, aborted>>

\* The UI thread runs the oldest posted task: the call is made if the event
\* handler still exists and dropped otherwise. A dropped onDownloadCompleted
\* task destroys its CompletedDownload, which unlinks the file.
RunTask ==
    /\ UNCHANGED httpVars
    /\ ~aborted
    /\ Len(tasks) > 0
    /\ tasks' = Tail(tasks)
    /\ LET t == Head(tasks)
       IN IF t.kind = "onDownloadCompleted"
          THEN IF handlerAlive
               THEN held' = held \cup {t.arg} /\ UNCHANGED unlinked
               ELSE unlinked' = unlinked \cup {t.arg.path} /\ UNCHANGED held
          ELSE UNCHANGED <<held, unlinked>>
    /\ lastCount' = IF Head(tasks).kind = "onPendingDownloadCountChanged"
                       /\ handlerAlive
                    THEN Some(Head(tasks).arg)
                    ELSE lastCount
    /\ lastOp' = Op("RunTask", 0, FALSE, FALSE, 0)
    /\ UNCHANGED <<infos, pending, nextFileIdx, tempDir, dmAlive, handlerAlive,
                   begun, registered, continued, cancelInvoked, completions,
                   aborted>>

\* CompletedDownload::~CompletedDownload
ReleaseCompleted(file) ==
    /\ UNCHANGED httpVars
    /\ ~aborted
    /\ file \in held
    /\ held' = held \ {file}
    /\ unlinked' = unlinked \cup {file.path}
    /\ lastOp' = Op("~CompletedDownload", 0, FALSE, FALSE, 0)
    /\ UNCHANGED <<infos, pending, nextFileIdx, tempDir, dmAlive, handlerAlive,
                   tasks, begun, registered, continued, cancelInvoked,
                   completions, lastCount, aborted>>

\* The DownloadManagerEventHandler is destroyed: eventHandler_ expires.
HandlerDestroyed ==
    /\ UNCHANGED httpVars
    /\ ~aborted
    /\ handlerAlive
    /\ handlerAlive' = FALSE
    /\ lastOp' = Op("~EventHandler", 0, FALSE, FALSE, 0)
    /\ UNCHANGED <<infos, pending, nextFileIdx, tempDir, dmAlive, tasks, begun,
                   registered, continued, cancelInvoked, unlinked, held,
                   completions, lastCount, aborted>>

\* --------------------------------------------------- HTTP actions
\* sendResponse without responseSent_ = true.
ImplSendResponseFlagUnset(r, rsp) ==
    /\ channel' = [channel EXCEPT ![r] = Some(rsp)]
    /\ writes' = [writes EXCEPT ![r] = @ + 1]
    /\ UNCHANGED responseSent

\* HTTPRequest::Impl::sendResponse, with the CHECK passed.
ImplSendResponse(r, rsp) ==
    /\ responseSent' = [responseSent EXCEPT ![r] = TRUE]
    /\ channel' = [channel EXCEPT ![r] = Some(rsp)]
    /\ writes' = [writes EXCEPT ![r] = @ + 1]

\* A destructor without the fallback response.
ImplDtorSilent(r) ==
    /\ destroyed' = [destroyed EXCEPT ![r] = TRUE]
    /\ UNCHANGED <<responseSent, channel, writes, fallback>>

\* HTTPRequest::Impl::~Impl
ImplDtor(r) ==
    /\ destroyed' = [destroyed EXCEPT ![r] = TRUE]
    /\ IF ~responseSent[r]
       THEN /\ ImplSendResponse(r,
                  TextResponder(InternalServerError, FallbackText, TRUE))
            /\ fallback' = [fallback EXCEPT ![r] = TRUE]
       ELSE UNCHANGED <<responseSent, channel, writes, fallback>>

\* The holder h gives up its shared_ptr<HTTPRequest>; the last one destroys it.
ReleaseRef(r, h) ==
    /\ refs' = [refs EXCEPT ![r] = @ \ {h}]
    /\ IF refs[r] \ {h} = {}
       THEN ImplDtor(r)
       ELSE UNCHANGED <<destroyed, responseSent, channel, writes, fallback>>

\* handleRequest up to and including postTask.
HandleRequest(r) ==
    /\ ~aborted /\ listening
    /\ wpc[r] = "idle"
    /\ wpc' = [wpc EXCEPT ![r] = "posted"]
    /\ refs' = [refs EXCEPT ![r] = {"worker", "task"}]
    /\ httpTasks' = Append(httpTasks, [kind |-> "onHTTPServerRequest", req |-> r])
    /\ lastOp' = Op("handleRequest", r, FALSE, FALSE, 0)
    /\ UNCHANGED <<destroyed, responseSent, channel, writes, fallback, wire,
                   applied, httpHandlerAlive, serverVars, dlVars, aborted>>

\* handleRequest: the block that declares reqObj ends.
WorkerRelease(r) ==
    /\ ~aborted
    /\ wpc[r] = "posted"
    /\ wpc' = [wpc EXCEPT ![r] = "blocked"]
    /\ ReleaseRef(r, "worker")
    /\ lastOp' = Op("workerRelease", r, FALSE, FALSE, 0)
    /\ UNCHANGED <<wire, applied, httpTasks, httpHandlerAlive, serverVars,
                   dlVars, aborted>>

\* handleRequest: responderFuture.get() returns and the responder is applied.
WorkerGet(r) ==
    /\ ~aborted
    /\ wpc[r] = "blocked"
    /\ channel[r].set
    /\ wpc' = [wpc EXCEPT ![r] = "done"]
    /\ wire' = [wire EXCEPT ![r] = Some(ApplyResponder(channel[r].v, FreshResponse))]
    /\ applied' = [applied EXCEPT ![r] = @ + 1]
    /\ lastOp' = Op("workerGet", r, FALSE, FALSE, 0)
    /\ UNCHANGED <<refs, destroyed, responseSent, channel, writes, fallback,
                   httpTasks, httpHandlerAlive, serverVars, dlVars, aborted>>

\* Whether the task postTask(owner, member, args...) makes keeps owner alive:
\* the task takes a weak reference to owner.
PostedCallOwnsTarget == FALSE

\* Who holds a shared_ptr to the HTTPServer::Impl: HTTPServer::impl_, the self
\* captured by the stop thread's lambda, and the self captured by the
\* completion lambda of a posted task.
ImplOwners(alive, spawned, stopped, ts) ==
    (IF alive THEN {"server"} ELSE {})
    \cup (IF spawned + stopped > 0 THEN {"thread"} ELSE {})
    \cup (IF \E k \in DOMAIN ts : ts[k].kind = "shutdownComplete"
          THEN {"task"} ELSE {})
    \cup (IF PostedCallOwnsTarget /\ \E k \in DOMAIN ts : ts[k].kind = "shutdown"
          THEN {"postedCall"} ELSE {})

\* A shared_ptr to the Impl was released, owners being the holders left: with
\* none left HTTPServer::Impl::~Impl runs, CHECK(shutdownComplete_).
ImplRelease(owners, complete) ==
    IF owners = {} /\ ~implDestroyed
    THEN /\ implDestroyed' = TRUE
         /\ aborted' = ~complete
    ELSE UNCHANGED <<implDestroyed, aborted>>

\* The body of HTTPServer::Impl::shutdown, up to stopThread.detach()
ImplShutdown ==
    IF shutdownStarted
    THEN UNCHANGED <<shutdownStarted, stopSpawned>>
    ELSE /\ shutdownStarted' = TRUE
         /\ stopSpawned' = stopSpawned + 1

\* The UI thread runs the oldest task the HTTP server posted.
RunHTTPTask ==
    /\ ~aborted
    /\ Len(httpTasks) > 0
    /\ httpTasks' = Tail(httpTasks)
    /\ LET t == Head(httpTasks)
       IN IF t.kind = "onHTTPServerRequest"
          THEN /\ IF httpHandlerAlive
                  THEN \* onHTTPServerRequest(reqObj): the consumer has the handle
                       /\ refs' = [refs EXCEPT ![t.req] = (@ \ {"task"}) \cup {"consumer"}]
                       /\ UNCHANGED <<destroyed, responseSent, channel, writes,
                                      fallback>>
                  ELSE \* the call is dropped and the task's arguments destroyed
                       ReleaseRef(t.req, "task")
               /\ lastOp' = Op("runRequestTask", t.req, FALSE, FALSE, 0)
               /\ UNCHANGED <<shutdownStarted, shutdownComplete, stopSpawned,
                              shutdownDelivered, implDestroyed, aborted>>
          ELSE IF t.kind = "shutdownComplete"
          THEN \* the lambda shutdown's stop thread posted, destroyed with its
               \* self once it has run
               /\ shutdownComplete' = TRUE
               /\ shutdownDelivered' = IF httpHandlerAlive
                                       THEN shutdownDelivered + 1
                                       ELSE shutdownDelivered
               /\ ImplRelease(ImplOwners(serverAlive, stopSpawned, stopStopped,
                                         httpTasks'), TRUE)
               /\ lastOp' = Op("runShutdownTask", 0, FALSE, FALSE, 0)
               /\ UNCHANGED <<refs, destroyed, responseSent, channel, writes,
                              fallback, shutdownStarted, stopSpawned>>
          ELSE \* Impl::shutdown posted by ~HTTPServer: dropped if the Impl is
               \* gone
               /\ IF implDestroyed
                  THEN UNCHANGED <<shutdownStarted, stopSpawned>>
                  ELSE ImplShutdown
               /\ ImplRelease(ImplOwners(serverAlive, stopSpawned', stopStopped,
                                         httpTasks'), shutdownComplete)
               /\ lastOp' = Op("runServerShutdownTask", 0, FALSE, FALSE, 0)
               /\ UNCHANGED <<refs, destroyed, responseSent, channel, writes,
                              fallback, shutdownComplete, shutdownDelivered>>
    /\ UNCHANGED <<wpc, wire, applied, httpHandlerAlive, listening,
                   stopStopped, stopAllCalls, serverAlive, dlVars>>

\* sendResponse without CHECK(!responseSent_): a second call returns having
\* done nothing.
SendTolerant(r, op, rsp) ==
    /\ ~aborted
    /\ "consumer" \in refs[r]
    /\ lastOp' = Op(op, r, FALSE, FALSE, 0)
    /\ IF responseSent[r]
       THEN UNCHANGED <<responseSent, channel, writes>>
       ELSE ImplSendResponse(r, rsp)
    /\ UNCHANGED <<wpc, refs, destroyed, fallback, wire, applied, httpTasks,
                   httpHandlerAlive, serverVars, dlVars, aborted>>

\* HTTPRequest::sendResponse / sendTextResponse on the UI thread, by the
\* consumer that holds the handle, with the responder rsp they build.
Send(r, op, rsp) ==
    /\ ~aborted
    /\ "consumer" \in refs[r]
    /\ lastOp' = Op(op, r, FALSE, FALSE, 0)
    /\ IF responseSent[r]
       THEN \* CHECK(!responseSent_) fails
            /\ aborted' = TRUE
            /\ UNCHANGED <<responseSent, channel, writes>>
       ELSE /\ ImplSendResponse(r, rsp)
            /\ UNCHANGED aborted
    /\ UNCHANGED <<wpc, refs, destroyed, fallback, wire, applied, httpTasks,
                   httpHandlerAlive, serverVars, dlVars>>

\* The consumer drops its shared_ptr<HTTPRequest>.
ConsumerRelease(r) ==
    /\ ~aborted
    /\ "consumer" \in refs[r]
    /\ ReleaseRef(r, "consumer")
    /\ lastOp' = Op("consumerRelease", r, FALSE, FALSE, 0)
    /\ UNCHANGED <<wpc, wire, applied, httpTasks, httpHandlerAlive, serverVars,
                   dlVars, aborted>>

\* The HTTPServerEventHandler is destroyed.
HTTPHandlerDestroyed ==
    /\ ~aborted
    /\ httpHandlerAlive
    /\ httpHandlerAlive' = FALSE
    /\ lastOp' = Op("~HTTPServerEventHandler", 0, FALSE, FALSE, 0)
    /\ UNCHANGED <<wpc, refs, destroyed, responseSent, channel, writes,
                   fallback, wire, applied, httpTasks, serverVars, dlVars,
                   aborted>>

ShutdownFrame ==
    /\ ~aborted
    /\ serverAlive
    /\ lastOp' = Op("shutdown", 0, FALSE, FALSE, 0)
    /\ UNCHANGED <<reqVars, listening, shutdownComplete, stopStopped,
                   stopAllCalls, shutdownDelivered, serverAlive, implDestroyed,
                   dlVars, aborted>>

\* shutdown without the test of shutdownStarted_.
ShutdownUnguarded ==
    /\ ShutdownFrame
    /\ shutdownStarted' = TRUE
    /\ stopSpawned' = stopSpawned + 1

\* HTTPServer::shutdown: HTTPServer::Impl::shutdown called on the UI thread.
Shutdown ==
    /\ ShutdownFrame
    /\ ImplShutdown

\* The stop thread: self->httpServer_.stopAll(false)
StopThreadStopAll ==
    /\ ~aborted
    /\ stopSpawned > 0
    /\ stopSpawned' = stopSpawned - 1
    /\ stopStopped' = stopStopped + 1
    /\ stopAllCalls' = stopAllCalls + 1
    /\ listening' = FALSE
    /\ lastOp' = Op("stopAll", 0, FALSE, FALSE, 0)
    /\ UNCHANGED <<reqVars, shutdownStarted, shutdownComplete,
                   shutdownDelivered, serverAlive, implDestroyed, dlVars,
                   aborted>>

\* A stop thread that ends after stopAll without posting the completion task.
StopThreadEndsSilently ==
    /\ ~aborted
    /\ stopStopped > 0
    /\ stopStopped' = stopStopped - 1
    /\ lastOp' = Op("stopThreadPost", 0, FALSE, FALSE, 0)
    /\ UNCHANGED <<reqVars, listening, shutdownStarted, shutdownComplete,
                   stopSpawned, stopAllCalls, shutdownDelivered, serverAlive,
                   implDestroyed, dlVars, aborted>>

\* The stop thread: postTask of the completion lambda, which holds a copy of
\* self; the thread's own copy goes with its lambda as the thread ends.
StopThreadPost ==
    /\ ~aborted
    /\ stopStopped > 0
    /\ stopStopped' = stopStopped - 1
    /\ httpTasks' = Append(httpTasks, [kind |-> "shutdownComplete", req |-> 0])
    /\ lastOp' = Op("stopThreadPost", 0, FALSE, FALSE, 0)
    /\ UNCHANGED <<wpc, refs, destroyed, responseSent, channel, writes,
                   fallback, wire, applied, httpHandlerAlive, listening,
                   shutdownStarted, shutdownComplete, stopSpawned,
                   stopAllCalls, shutdownDelivered, serverAlive,
                   implDestroyed, dlVars, aborted>>

\* HTTPServer::~HTTPServer: postTask(impl_, &Impl::shutdown), then the member
\* impl_ is destroyed.
DestroyServer ==
    /\ ~aborted
    /\ serverAlive
    /\ serverAlive' = FALSE
    /\ httpTasks' = Append(httpTasks, [kind |-> "shutdown", req |-> 0])
    /\ ImplRelease(ImplOwners(FALSE, stopSpawned, stopStopped, httpTasks'),
                   shutdownComplete)
    /\ lastOp' = Op("~HTTPServer", 0, FALSE, FALSE, 0)
    /\ UNCHANGED <<wpc, refs, destroyed, responseSent, channel, writes,
                   fallback, wire, applied, httpHandlerAlive, listening,
                   shutdownStarted, shutdownComplete, stopSpawned,
                   stopStopped, stopAllCalls, shutdownDelivered, dlVars>>

\* The responders the consumer may send.
TextResponders ==
    {TextResponder(404, "not found", nc) : nc \in BOOLEAN}
BinaryResponders ==
    {Responder(200, "image/png", 3, "PNG", FALSE)}

NextHTTP ==
    \/ \E r \in Reqs : HandleRequest(r)
    \/ \E r \in Reqs : WorkerRelease(r)
    \/ \E r \in Reqs : WorkerGet(r)
    \/ RunHTTPTask
    \/ \E r \in Reqs, rsp \in BinaryResponders : Send(r, "sendResponse", rsp)
    \/ \E r \in Reqs, rsp \in TextResponders : Send(r, "sendTextResponse", rsp)
    \/ \E r \in Reqs : ConsumerRelease(r)
    \/ HTTPHandlerDestroyed
    \/ Shutdown
    \/ StopThreadStopAll
    \/ StopThreadPost

SpecHTTP == Init /\ [][NextHTTP]_vars

\* The operating system schedules every thread, and the UI thread's message
\* loop runs every posted task.
FairSpecHTTP ==
    /\ SpecHTTP
    /\ \A r \in Reqs : WF_vars(WorkerRelease(r)) /\ WF_vars(WorkerGet(r))
    /\ WF_vars(RunHTTPTask)
    /\ WF_vars(StopThreadStopAll) /\ WF_vars(StopThreadPost)

\* The request rendezvous alone, the server listening throughout.
NextReq ==
    \/ \E r \in Reqs : HandleRequest(r)
    \/ \E r \in Reqs : WorkerRelease(r)
    \/ \E r \in Reqs : WorkerGet(r)
    \/ RunHTTPTask
    \/ \E r \in Reqs, rsp \in BinaryResponders : Send(r, "sendResponse", rsp)
    \/ \E r \in Reqs, rsp \in TextResponders : Send(r, "sendTextResponse", rsp)
    \/ \E r \in Reqs : ConsumerRelease(r)
    \/ HTTPHandlerDestroyed

SpecReq == Init /\ [][NextReq]_vars

\* The operating system schedules a worker thread whose future is ready.
FairSpecReq ==
    /\ SpecReq
    /\ \A r \in Reqs : WF_vars(WorkerGet(r))

\* The life of the server object, with requests the consumer drops unanswered.
NextServer ==
    \/ \E r \in Reqs : HandleRequest(r)
    \/ \E r \in Reqs : WorkerRelease(r)
    \/ \E r \in Reqs : WorkerGet(r)
    \/ \E r \in Reqs : ConsumerRelease(r)
    \/ Shutdown
    \/ StopThreadStopAll
    \/ StopThreadPost
    \/ RunHTTPTask
    \/ HTTPHandlerDestroyed
    \/ DestroyServer

SpecServer == Init /\ [][NextServer]_vars

\* The operating system schedules the stop thread, and the UI thread's message
\* loop runs every posted task.
FairSpecServer ==
    /\ SpecServer
    /\ WF_vars(StopThreadStopAll) /\ WF_vars(StopThreadPost)
    /\ WF_vars(RunHTTPTask)

\* The (isComplete, isInProgress, percent) an update event can carry, with
\* the percentages drawn from ps.
UpdateInputs(ps) ==
    {<<TRUE, p, 0>> : p \in BOOLEAN}
    \cup {<<FALSE, FALSE, 0>>}
    \cup {<<FALSE, TRUE, x>> : x \in ps}

\* The steps of the download ledger over the ids in ids and the percentages in ps.
NextDL(ids, ps) ==
    \/ \E id \in ids, name \in Names : OnBeforeDownload(id, name)
    \/ \E id \in ids, u \in UpdateInputs(ps) :
          OnDownloadUpdated(id, u[1], u[2], u[3])
    \/ acceptPendingDownload
    \/ DestroyManager
    \/ RunTask
    \/ \E file \in held : ReleaseCompleted(file)
    \/ HandlerDestroyed

Next == NextDL(Ids, TickInputs)

Spec == Init /\ [][Next]_vars

\* One download, every percentage.
NextClamp == NextDL({1}, PercentInputs)

SpecClamp == Init /\ [][NextClamp]_vars

\* ------------------------------------------------------------ claims
Range(f) == {f[k] : k \in DOMAIN f}
Accepted(inf) == {i \in DOMAIN inf : inf[i].startCallback = NULL}
Awaiting(inf) == {i \in DOMAIN inf : inf[i].startCallback # NULL}
\* The tasks the step posted.
PostedNow ==
    IF Len(tasks') > Len(tasks)
    THEN SubSeq(tasks', Len(tasks) + 1, Len(tasks'))
    ELSE <<>>
LedgerState == <<infos, pending, nextFileIdx, tempDir, tasks, continued,
                 cancelInvoked, unlinked, held, completions, aborted>>

\* C1: the start capability continued by the k-th accept call that finds a
\* download pending is the one the k-th OnBeforeDownload registered, with any
\* OnDownloadUpdated events interleaved.
C1_FifoAcceptance ==
    /\ Len(continued) <= Len(registered)
    /\ \A k \in 1..Len(continued) : continued[k].cb = registered[k]

\* Two downloads begun with ids in descending order, both accepted, and an
\* update event already processed in between.
C1_Witness ==
    /\ Len(registered) = 2 /\ Len(continued) = 2
    /\ registered[1] > registered[2]
    /\ lastOp.op = "acceptPendingDownload"
    /\ \E i \in Accepted(infos) : infos[i].cancelCallback # NULL

\* C5: onDownloadCompleted is posted at most once per id, and once by the
\* completing update; the id is absent from the ledger right after it; a later
\* OnDownloadUpdated for that id, whatever its flags, posts nothing and
\* changes nothing in the ledger.
C5_SingleCompletion ==
    [][/\ \A i, j \in 1..Len(completions') :
             i # j => completions'[i] # completions'[j]
       /\ completions' # completions =>
            /\ Len(completions') = Len(completions) + 1
            /\ completions'[Len(completions')] \notin DOMAIN infos'
            /\ Cardinality({k \in 1..Len(PostedNow) :
                   PostedNow[k].kind = "onDownloadCompleted"}) = 1
       /\ completions' = completions =>
            \A k \in 1..Len(PostedNow) : PostedNow[k].kind # "onDownloadCompleted"
       /\ (lastOp'.op = "OnDownloadUpdated" /\ lastOp'.id \in Range(completions))
            => UNCHANGED LedgerState
      ]_vars

\* A further complete update has arrived for an id whose completion was
\* posted and already delivered.
C5_Witness ==
    /\ lastOp.op = "OnDownloadUpdated" /\ lastOp.complete
    /\ lastOp.id \in Range(completions)
    /\ tasks = <<>>

\* The last step was an in-progress update of an Accepted download.
ProgressTickDone ==
    /\ lastOp.op = "OnDownloadUpdated"
    /\ ~lastOp.complete /\ lastOp.inProgress
    /\ lastOp.id \in Accepted(infos)

\* C6 as stated: -50, -1, 0, 37, 100, 101, 9999 are stored as 0, 0, 0, 37,
\* 100, 100, 100 and the indeterminate sentinel as 50.
C6_AsClaimed ==
    ProgressTickDone =>
        /\ \A row \in {<<-50, 0>>, <<-1, 0>>, <<0, 0>>, <<37, 37>>, <<100, 100>>,
                       <<101, 100>>, <<9999, 100>>} :
              lastOp.percent = row[1] => infos[lastOp.id].progress = row[2]
        /\ lastOp.percent = IndeterminateSentinel => infos[lastOp.id].progress = 50

\* C6, amended: -1 is the indeterminate sentinel and is stored as 50; -50, 0,
\* 37, 100, 101, 9999 are stored as 0, 0, 37, 100, 100, 100, every value other
\* than -1 being clamped to [0, 100].
C6_Clamping ==
    ProgressTickDone =>
        /\ \A row \in {<<-50, 0>>, <<-1, 50>>, <<0, 0>>, <<37, 37>>, <<100, 100>>,
                       <<101, 100>>, <<9999, 100>>} :
              lastOp.percent = row[1] => infos[lastOp.id].progress = row[2]
        /\ infos[lastOp.id].progress \in 0..100

\* An Accepted download has just been reported at -1.
C6_Witness ==
    /\ ProgressTickDone
    /\ lastOp.percent = -1
    /\ infos[lastOp.id].progress = 50

\* The position of download i among the Accepted downloads by fileIdx.
Rank(inf, i) ==
    1 + Cardinality({j \in Accepted(inf) : inf[j].fileIdx < inf[i].fileIdx})

\* C7: every onDownloadProgressChanged payload holds one value per download
\* Accepted when the call that posts it ends, none for the others, in
\* ascending fileIdx order.
C7_ProgressPayload ==
    [][\A k \in 1..Len(PostedNow) :
          PostedNow[k].kind = "onDownloadProgressChanged" =>
             /\ Len(PostedNow[k].arg) = Cardinality(Accepted(infos'))
             /\ \A i \in Accepted(infos') :
                   PostedNow[k].arg[Rank(infos', i)] = infos'[i].progress
      ]_vars

\* A payload for two Accepted downloads whose fileIdx order is the reverse of
\* their id order and whose progress differs.
C7_Witness ==
    /\ Len(tasks) > 0
    /\ tasks[Len(tasks)].kind = "onDownloadProgressChanged"
    /\ Len(tasks[Len(tasks)].arg) = 2
    /\ lastOp.op = "OnDownloadUpdated"
    /\ \E i, j \in Accepted(infos) :
          /\ i < j /\ infos[i].fileIdx > infos[j].fileIdx
          /\ infos[i].progress # infos[j].progress

\* What the destructor leaves alone for an AwaitingAcceptance download i.
Untouched(i) ==
    /\ getFilePath_(infos[i].fileIdx) \in unlinked' <=>
          getFilePath_(infos[i].fileIdx) \in unlinked
    /\ CancelCb(i) \in cancelInvoked' <=> CancelCb(i) \in cancelInvoked
    /\ continued' = continued

\* C8 as stated: the destructor invokes the cancel capability of every
\* Accepted download, update received or not, and unlinks its file, and
\* leaves every AwaitingAcceptance download untouched.
C8_AsClaimed ==
    [][(dmAlive /\ ~dmAlive') =>
          /\ \A i \in Accepted(infos) :
                /\ CancelCb(i) \in cancelInvoked'
                /\ getFilePath_(infos[i].fileIdx) \in unlinked'
          /\ \A i \in Awaiting(infos) : Untouched(i)
      ]_vars

\* C8, amended: the destructor unlinks the file of every Accepted download
\* and invokes its cancel capability if the ledger holds one, that is if an
\* update event has been received for it since acceptance; for an Accepted
\* download without one no capability is invoked. AwaitingAcceptance
\* downloads are left untouched.
C8_TeardownCancels ==
    [][(dmAlive /\ ~dmAlive') =>
          /\ \A i \in Accepted(infos) :
                /\ getFilePath_(infos[i].fileIdx) \in unlinked'
                /\ infos[i].cancelCallback # NULL =>
                      infos[i].cancelCallback \in cancelInvoked'
                /\ infos[i].cancelCallback = NULL =>
                      (CancelCb(i) \in cancelInvoked' <=> CancelCb(i) \in cancelInvoked)
          /\ \A i \in Awaiting(infos) : Untouched(i)
      ]_vars

\* The ledger was destroyed with the first download Accepted and updated
\* (its progress is the last payload posted) and the second one still
\* AwaitingAcceptance.
C8_Witness ==
    /\ lastOp.op = "~DownloadManager"
    /\ Len(registered) = 2 /\ Len(continued) = 1
    /\ Len(tasks) > 0
    /\ tasks[Len(tasks)].kind = "onDownloadProgressChanged"
    /\ Len(tasks[Len(tasks)].arg) = 1
    /\ cancelInvoked = {registered[1]}
    /\ unlinked = {continued[1].path}

\* C9: acceptPendingDownload with the pending queue empty changes no ledger
\* state, invokes no capability and posts no notification.
C9_AcceptEmptyNoOp ==
    [][(lastOp'.op = "acceptPendingDownload" /\ Len(pending) = 0) =>
          UNCHANGED <<LedgerState, dmAlive, handlerAlive, registered, begun>>
      ]_vars

\* An accept call found the queue empty after downloads had been begun.
C9_Witness ==
    /\ lastOp.op = "acceptPendingDownload"
    /\ Len(pending) = 0 /\ tasks = <<>>
    /\ Len(registered) > 0 /\ Len(continued) = Len(registered)

\* C2: once the request's handle has been destroyed without a response, the
\* channel holds the fallback value, and the worker blocked in handleRequest
\* is released (unless a failed CHECK has ended the process).
C2_WorkerReleased ==
    /\ [](\A r \in Reqs : destroyed[r] => channel[r].set)
    /\ \A r \in Reqs :
          (destroyed[r] /\ fallback[r]) ~> (wpc[r] = "done" \/ aborted)

\* The posted onHTTPServerRequest task has just been dropped, the event
\* handler being gone, while the worker is blocked.
C2_Witness ==
    /\ lastOp.op = "runRequestTask"
    /\ ~httpHandlerAlive
    /\ wpc[lastOp.id] = "blocked"
    /\ destroyed[lastOp.id] /\ fallback[lastOp.id]

\* C3: the response the worker produces for a handle destroyed without a
\* response call is a 500 with a non-empty diagnostic body and caching
\* disabled.
C3_Fallback500 ==
    \A r \in Reqs :
        (fallback[r] /\ wire[r].set) =>
            /\ wire[r].v.status = InternalServerError
            /\ wire[r].v.body = FallbackText /\ Len(wire[r].v.body) > 0
            /\ NoCacheHeaders \subseteq wire[r].v.headers

\* C4: exactly one value is written to a request's channel by the time its
\* handle is destroyed, never two, and the worker applies exactly one
\* responder.
C4_ExactlyOneWrite ==
    \A r \in Reqs :
        /\ writes[r] <= 1
        /\ destroyed[r] => writes[r] = 1
        /\ applied[r] <= 1
        /\ wpc[r] = "done" => applied[r] = 1

\* A handle on which the consumer sent a response was destroyed and the
\* worker applied the responder, while another request got the fallback.
C4_Witness ==
    \E r, q \in Reqs :
        /\ destroyed[r] /\ ~fallback[r] /\ wpc[r] = "done"
        /\ destroyed[q] /\ fallback[q] /\ wpc[q] = "done"

\* C10: the listener is stopped at most once and
\* onHTTPServerShutdownComplete is delivered at most once, and a shutdown()
\* call after the first changes no state.
C10_ShutdownIdempotent ==
    [][/\ stopAllCalls' <= 1
       /\ shutdownDelivered' <= 1
       /\ (lastOp'.op = "shutdown" /\ shutdownStarted) =>
             UNCHANGED <<httpVars, dlVars, aborted>>
      ]_vars

\* shutdown() was called again after the shutdown had completed.
C10_Witness ==
    /\ lastOp.op = "shutdown"
    /\ shutdownComplete
    /\ stopAllCalls = 1 /\ shutdownDelivered = 1

\* C11: a sendResponse or sendTextResponse call on a handle that has already
\* sent a response fails the CHECK: the process stops, and the call writes
\* no second value to the channel.
C11_SecondSendAborts ==
    [][(/\ lastOp'.op \in {"sendResponse", "sendTextResponse"}
        /\ responseSent[lastOp'.id]) =>
           /\ aborted'
           /\ writes' = writes
           /\ channel' = channel
           /\ responseSent' = responseSent
      ]_vars

\* A second send was attempted on a handle whose channel holds one value.
C11_Witness ==
    /\ aborted
    /\ lastOp.op \in {"sendResponse", "sendTextResponse"}
    /\ responseSent[lastOp.id]
    /\ writes[lastOp.id] = 1

\* The ids whose start capability has been invoked.
ContinuedIds == {i \in Ids : \E k \in DOMAIN continued : continued[k].cb = StartCb(i)}

\* C12 as claimed: in every state each download in the ledger has exactly one
\* of the two capabilities set, the start capability exactly until it is
\* accepted and the cancel capability exactly from then on.
C12_AsClaimed ==
    \A i \in DOMAIN infos :
        /\ (infos[i].startCallback # NULL) # (infos[i].cancelCallback # NULL)
        /\ infos[i].startCallback # NULL <=> i \notin ContinuedIds
        /\ infos[i].cancelCallback # NULL <=> i \in ContinuedIds

\* C12: each download in the ledger has at most one of the two capabilities
\* set: the start capability exactly until it is accepted, and the cancel
\* capability only after acceptance. acceptPendingDownload leaves the accepted
\* download with neither; the cancel capability is set by the first update
\* event processed afterwards that leaves the download in the ledger.
C12_CapabilityExclusive ==
    [][/\ \A i \in DOMAIN infos' :
            /\ ~(infos'[i].startCallback # NULL /\ infos'[i].cancelCallback # NULL)
            /\ infos'[i].startCallback # NULL <=> i \notin ContinuedIds'
            /\ infos'[i].cancelCallback # NULL => i \in ContinuedIds'
       /\ (lastOp'.op = "acceptPendingDownload" /\ Len(pending) > 0 /\ ~aborted') =>
             /\ infos'[Front(pending)].startCallback = NULL
             /\ infos'[Front(pending)].cancelCallback = NULL
       /\ (/\ lastOp'.op = "OnDownloadUpdated"
           /\ lastOp'.id \in Accepted(infos)
           /\ lastOp'.id \in DOMAIN infos') =>
             infos'[lastOp'.id].cancelCallback = CancelCb(lastOp'.id)
      ]_vars

\* One accepted download has neither capability while another, accepted and
\* updated, has its cancel capability.
C12_Witness ==
    \E i, j \in DOMAIN infos :
        /\ i \in ContinuedIds /\ j \in ContinuedIds
        /\ infos[i].startCallback = NULL /\ infos[i].cancelCallback = NULL
        /\ infos[j].startCallback = NULL /\ infos[j].cancelCallback = CancelCb(j)

\* C13: an OnDownloadUpdated event for an id that is not in the ledger, or
\* whose download still awaits acceptance, changes nothing whatever its
\* flags: ledger, queue, capabilities and progress are as before, no
\* capability is invoked, no file is unlinked and no notification is posted.
C13_IgnoredUpdate ==
    [][(/\ lastOp'.op = "OnDownloadUpdated"
        /\ \/ lastOp'.id \notin DOMAIN infos
           \/ lastOp'.id \in Awaiting(infos)) =>
           /\ UNCHANGED LedgerState
           /\ UNCHANGED <<dmAlive, handlerAlive, registered>>
           /\ PostedNow = <<>>
      ]_vars

\* A completion event arrived for a download that still awaits acceptance,
\* after an event for an id the ledger no longer holds had arrived.
C13_Witness ==
    /\ lastOp.op = "OnDownloadUpdated"
    /\ lastOp.complete
    /\ lastOp.id \in Awaiting(infos)
    /\ begun \ DOMAIN infos # {}

\* The count tasks among a sequence of tasks, in order.
CountArgs(ts) ==
    LET idx == {k \in DOMAIN ts : ts[k].kind = "onPendingDownloadCountChanged"}
    IN [n \in 1..Cardinality(idx) |->
          ts[CHOOSE k \in idx : Cardinality({j \in idx : j <= k}) = n].arg]

\* C14 as claimed: once every posted task has run, the count last delivered
\* is the size of the pending queue.
C14_AsClaimed ==
    (dmAlive /\ tasks = <<>> /\ lastCount.set) => lastCount.v = Len(pending)

\* C14: every onPendingDownloadCountChanged task carries the size the queue
\* has when it is posted; the tasks run in the order posted, and a count is
\* delivered only while the event handler exists. Consecutive delivered
\* counts differ by exactly 1, and while the event handler exists the last
\* delivered count is the size of the queue once every posted task has run.
C14_CountSnapshots ==
    [][/\ \A k \in DOMAIN PostedNow :
             PostedNow[k].kind = "onPendingDownloadCountChanged" =>
                /\ PostedNow[k].arg = Len(pending')
                /\ pending' # pending
       /\ (dmAlive' /\ pending' # pending) => Len(CountArgs(PostedNow)) = 1
       /\ lastOp'.op = "RunTask" =>
             /\ tasks' = Tail(tasks)
             /\ IF Head(tasks).kind = "onPendingDownloadCountChanged"
                   /\ handlerAlive
                THEN /\ lastCount' = Some(Head(tasks).arg)
                     /\ LET prev == IF lastCount.set THEN lastCount.v ELSE 0
                        IN lastCount'.v - prev \in {-1, 1}
                ELSE lastCount' = lastCount
       /\ lastOp'.op # "RunTask" => lastCount' = lastCount
       /\ (dmAlive' /\ handlerAlive' /\ tasks' = <<>>) =>
             Len(pending') = IF lastCount'.set THEN lastCount'.v ELSE 0
      ]_vars

\* The task run last delivered the count 1, two downloads having begun and
\* one of them having been accepted.
C14_Witness ==
    /\ lastOp.op = "RunTask"
    /\ dmAlive /\ handlerAlive
    /\ Len(continued) = 1
    /\ Len(registered) = 2
    /\ lastCount = Some(1)
    /\ CountArgs(tasks) = <<>>

\* The temp paths of the downloads in the ledger, and the paths owned by
\* CompletedDownload handles, held by the event handler or by a posted task.
LivePaths == {getFilePath_(infos[i].fileIdx) : i \in DOMAIN infos}
OwnedPaths ==
    {f.path : f \in held}
    \cup {tasks[k].arg.path :
            k \in {j \in DOMAIN tasks : tasks[j].kind = "onDownloadCompleted"}}

\* C15: the file index counter only grows, each begun download takes the
\* counter's value and moves it on, so no index is used twice, and the temp
\* path of a download in the ledger is never the path of another download in
\* the ledger nor a path a CompletedDownload handle owns.
C15_FileIdxUnique ==
    [][/\ nextFileIdx' >= nextFileIdx
       /\ lastOp'.op = "OnBeforeDownload" =>
             /\ infos'[lastOp'.id].fileIdx = nextFileIdx
             /\ nextFileIdx' > nextFileIdx
             /\ \A i \in DOMAIN infos : infos'[i].fileIdx = infos[i].fileIdx
       /\ \A i \in DOMAIN infos' :
             /\ infos'[i].fileIdx \in FirstFileIdx..(nextFileIdx' - 1)
             /\ \A j \in DOMAIN infos' :
                   i # j => infos'[i].fileIdx # infos'[j].fileIdx
       /\ Cardinality(LivePaths') = Cardinality(DOMAIN infos')
       /\ LivePaths' \cap OwnedPaths' = {}
       /\ \A p \in OwnedPaths' \cup unlinked' :
             \E k \in FirstFileIdx..(nextFileIdx' - 1) : p = getFilePath_(k)
      ]_vars

\* An accepted download is in the ledger while the event handler holds the
\* handle of a download that began earlier and has completed.
C15_Witness ==
    /\ Accepted(infos) # {}
    /\ held # {}
    /\ nextFileIdx = FirstFileIdx + 2
    /\ \E i \in Accepted(infos) : infos[i].fileIdx = FirstFileIdx + 1

\* C16: an update event for an accepted download that is neither complete
\* nor in progress invokes the download's cancel capability, unlinks its
\* temp file and removes it from the ledger, and posts no
\* onDownloadCompleted; update events that arrive for the id afterwards
\* change nothing.
C16_CancelledUpdate ==
    [][/\ (/\ lastOp'.op = "OnDownloadUpdated"
           /\ ~lastOp'.complete /\ ~lastOp'.inProgress
           /\ lastOp'.id \in Accepted(infos)) =>
             /\ CancelCb(lastOp'.id) \in cancelInvoked'
             /\ cancelInvoked' \ cancelInvoked \subseteq {CancelCb(lastOp'.id)}
             /\ unlinked' = unlinked \cup {getFilePath_(infos[lastOp'.id].fileIdx)}
             /\ DOMAIN infos' = DOMAIN infos \ {lastOp'.id}
             /\ \A k \in DOMAIN PostedNow : PostedNow[k].kind # "onDownloadCompleted"
             /\ completions' = completions
             /\ held' = held
       /\ (/\ lastOp'.op = "OnDownloadUpdated"
           /\ CancelCb(lastOp'.id) \in cancelInvoked) =>
             /\ UNCHANGED LedgerState
             /\ PostedNow = <<>>
      ]_vars

\* A completion event arrived for a download that an earlier event had
\* cancelled, its temp file unlinked.
C16_Witness ==
    /\ lastOp.op = "OnDownloadUpdated"
    /\ lastOp.complete
    /\ CancelCb(lastOp.id) \in cancelInvoked
    /\ lastOp.id \notin DOMAIN infos
    /\ lastOp.id \notin Range(completions)
    /\ dmAlive
    /\ unlinked # {}

\* C17: shutdown() returns without stopping the listener itself;
\* shutdownComplete_ becomes true only in the completion task on the UI
\* thread, after the listener was stopped, and never becomes false again;
\* the task calls onHTTPServerShutdownComplete if the event handler exists;
\* once shutdown() was called, shutdownComplete_ eventually is true.
C17_ShutdownCompletes ==
    /\ [][/\ lastOp'.op = "shutdown" =>
                /\ UNCHANGED <<listening, stopAllCalls, shutdownComplete,
                               shutdownDelivered, httpTasks>>
                /\ shutdownStarted'
          /\ shutdownComplete => shutdownComplete'
          /\ (~shutdownComplete /\ shutdownComplete') =>
                /\ lastOp'.op = "runShutdownTask"
                /\ stopAllCalls >= 1 /\ ~listening
                /\ shutdownDelivered' =
                      shutdownDelivered + (IF httpHandlerAlive THEN 1 ELSE 0)
          /\ shutdownDelivered' # shutdownDelivered =>
                lastOp'.op = "runShutdownTask"
         ]_vars
    /\ (shutdownStarted ~> shutdownComplete)

\* The shutdown completed and the event handler was told, after the
\* HTTPServer object had been destroyed with the shutdown under way.
C17_Witness ==
    /\ lastOp.op = "runShutdownTask"
    /\ shutdownComplete
    /\ shutdownDelivered = 1
    /\ ~serverAlive
    /\ ~aborted

\* C19: whenever HTTPServer::Impl has been destructed, shutdownComplete_ is
\* true, so that the CHECK in its destructor has not failed.
C19_ImplOutlivesShutdown ==
    implDestroyed => (shutdownComplete /\ ~aborted)

\* C18: in every state the pending queue holds exactly the ids of the
\* downloads in the ledger whose start capability is set, each once and in
\* the order the downloads began, and neither REQUIRE of
\* acceptPendingDownload has failed.
C18_QueueIsAwaiting ==
    /\ Range(pending) = Awaiting(infos)
    /\ \A a, b \in DOMAIN pending : a # b => pending[a] # pending[b]
    /\ \A a, b \in DOMAIN pending :
          a < b =>
             \E m, n \in DOMAIN registered :
                /\ m < n
                /\ registered[m] = StartCb(pending[a])
                /\ registered[n] = StartCb(pending[b])
    /\ ~aborted

\* Two downloads await acceptance, queued in the order they began with the
\* larger id first, and an update event has just arrived for one of them.
C18_Witness ==
    /\ Len(pending) = 2
    /\ pending[1] > pending[2]
    /\ lastOp.op = "OnDownloadUpdated"
    /\ lastOp.id \in Range(pending)

\* C20: every OnDownloadUpdated event processed for an accepted download
\* posts exactly one onDownloadProgressChanged task, as the last task it
\* posts; a completion posts onDownloadCompleted just before it; and the
\* payload has one entry per accepted download left in the ledger, so none
\* for a download the event completed or cancelled.
C20_OneProgressPerUpdate ==
    [][(/\ lastOp'.op = "OnDownloadUpdated"
        /\ lastOp'.id \in Accepted(infos)) =>
           LET n == Len(PostedNow)
               finalized == lastOp'.complete \/ ~lastOp'.inProgress
           IN /\ n = (IF lastOp'.complete THEN 2 ELSE 1)
              /\ PostedNow[n].kind = "onDownloadProgressChanged"
              /\ lastOp'.complete => PostedNow[1].kind = "onDownloadCompleted"
              /\ Len(PostedNow[n].arg) = Cardinality(Accepted(infos'))
              /\ Range(PostedNow[n].arg) =
                    {infos'[i].progress : i \in Accepted(infos')}
              /\ finalized =>
                    /\ lastOp'.id \notin DOMAIN infos'
                    /\ Accepted(infos') = Accepted(infos) \ {lastOp'.id}
              /\ ~finalized => Accepted(infos') = Accepted(infos)
      ]_vars

\* A completion event was processed for one of two accepted downloads: the
\* progress notification it posted, behind onDownloadCompleted, has the one
\* entry of the other download.
C20_Witness ==
    /\ lastOp.op = "OnDownloadUpdated"
    /\ lastOp.complete
    /\ lastOp.id \in Range(completions)
    /\ Len(tasks) = 2
    /\ tasks[1].kind = "onDownloadCompleted"
    /\ tasks[2].kind = "onDownloadProgressChanged"
    /\ Len(tasks[2].arg) = 1
    /\ Cardinality(Accepted(infos)) = 1

====
